---- MODULE Spec2Model ----
(***************************************************************************)
(* Model of the ExtString trait implemented for String (src/src/lib.rs).   *)
(*                                                                         *)
(* A String is modelled as the sequence of its Unicode scalar values; a    *)
(* scalar is a TLA+ string naming it ("a", "U+0301", "CR", ...).  Every    *)
(* method of the trait is one action: it reads the receiver `self` and     *)
(* its arguments and records the value it returns.                         *)
(***************************************************************************)
EXTENDS Integers, Sequences, FiniteSets, TLC

VARIABLES self, op, pad_len, c, s, out, ret, fault

vars == <<self, op, pad_len, c, s, out, ret, fault>>

----------------------------------------------------------------------------
(* Bounds of the explored input space.                                      *)

MaxLen == 3
MaxPad == 4
MaxPat == 3

(* Scalars the receiver is built from:                                      *)
(*   A         LATIN CAPITAL LETTER A, lowercases to a, which uppercases    *)
(*             back to A                                                    *)
(*   1         a decimal digit                                              *)
(*   -         punctuation                                                  *)
(*   U+00DF    LATIN SMALL LETTER SHARP S, uppercases to the two scalars SS *)
(*   U+0131    LATIN SMALL LETTER DOTLESS I, uppercases to the scalar I     *)
(*   U+0301    COMBINING ACUTE ACCENT (Grapheme_Cluster_Break = Extend)     *)
(*   CR, LF    carriage return, line feed                                   *)
TextScalars == {"A", "1", "-", "U+00DF", "U+0131", "U+0301", "CR", "LF"}

(* Fill characters of pad_left / pad_right.                                 *)
FillScalars == {" ", "q"}

(* Fill patterns of pad_left_str / pad_right_str: the prefixes of PatBase,  *)
(* the empty one included.  Its second scalar is a combining mark, so that  *)
(* q U+0301 is two scalars but one grapheme cluster.                        *)
PatBase == <<"q", "U+0301", "w", "e", "r", "t", "y">>
Patterns == {SubSeq(PatBase, 1, k) : k \in 0..MaxPat}

SeqsUpTo(S, n) == UNION {[1..k -> S] : k \in 0..n}

Texts == SeqsUpTo(TextScalars, MaxLen)

----------------------------------------------------------------------------
(* char classification and case mapping of the standard library, on the     *)
(* scalars of the model.                                                    *)

\* char::is_numeric (general categories Nd, Nl, No)
is_numeric_char(ch) == ch \in {"1"}

\* char::is_alphabetic (derived property Alphabetic)
is_alphabetic_char(ch) ==
    ch \in {"a", "A", "U+00DF", "U+0131", "I", "i", "S", "s", "q", "w", "e", "r", "t", "y"}

\* char::is_alphanumeric
is_alphanumeric_char(ch) == is_alphabetic_char(ch) \/ is_numeric_char(ch)

\* char::is_lowercase (derived property Lowercase)
is_lowercase_char(ch) ==
    ch \in {"a", "U+00DF", "U+0131", "i", "s", "q", "w", "e", "r", "t", "y"}

\* char::is_uppercase (derived property Uppercase)
is_uppercase_char(ch) == ch \in {"A", "I", "S"}

\* char::to_uppercase, collected: the full (possibly multi-scalar) mapping
to_uppercase(ch) ==
    CASE ch = "a" -> <<"A">>
      [] ch = "i" -> <<"I">>
      [] ch = "s" -> <<"S">>
      [] ch = "U+0131" -> <<"I">>
      [] ch = "U+00DF" -> <<"S", "S">>
      [] OTHER -> <<ch>>

\* char::to_lowercase, collected
to_lowercase(ch) ==
    CASE ch = "A" -> <<"a">>
      [] ch = "I" -> <<"i">>
      [] ch = "S" -> <<"s">>
      [] OTHER -> <<ch>>

----------------------------------------------------------------------------
(* Extended grapheme cluster segmentation (UAX #29) as performed by         *)
(* UnicodeSegmentation::graphemes(_, true).                                 *)

\* Grapheme_Cluster_Break property
GCB(ch) ==
    CASE ch = "CR" -> "CR"
      [] ch = "LF" -> "LF"
      [] ch = "U+0301" -> "Extend"
      [] OTHER -> "Other"

\* Is there a cluster boundary between the adjacent scalars l and r?
IsBreak(l, r) ==
    IF GCB(l) = "CR" /\ GCB(r) = "LF" THEN FALSE                  \* GB3
    ELSE IF GCB(l) \in {"CR", "LF", "Control"} THEN TRUE          \* GB4
    ELSE IF GCB(r) \in {"CR", "LF", "Control"} THEN TRUE          \* GB5
    ELSE IF GCB(r) \in {"Extend", "ZWJ", "SpacingMark"} THEN FALSE \* GB9, GB9a
    ELSE TRUE                                                     \* GB999

\* Length of the first cluster of the non-empty text t
RECURSIVE FirstClusterLen(_, _)
FirstClusterLen(t, k) ==
    IF k = Len(t) \/ IsBreak(t[k], t[k + 1]) THEN k
    ELSE FirstClusterLen(t, k + 1)

RECURSIVE graphemes(_)
graphemes(t) ==
    IF t = <<>> THEN <<>>
    ELSE LET k == FirstClusterLen(t, 1)
         IN  <<SubSeq(t, 1, k)>> \o graphemes(SubSeq(t, k + 1, Len(t)))

\* Vec::reverse
VecReverse(v) == [i \in 1..Len(v) |-> v[Len(v) + 1 - i]]

\* Variant of Join: join(" "), a separator between the clusters
RECURSIVE JoinWithSeparator(_)
JoinWithSeparator(v) ==
    IF v = <<>> THEN <<>>
    ELSE IF Len(v) = 1 THEN Head(v)
    ELSE Head(v) \o <<" ">> \o JoinWithSeparator(Tail(v))

\* [&str]::join("")
RECURSIVE Join(_)
Join(v) == IF v = <<>> THEN <<>> ELSE Head(v) \o Join(Tail(v))

\* Variant of reverse: chars().rev(), the scalar-by-scalar reversal
reverse_chars(t) == [i \in 1..Len(t) |-> t[Len(t) + 1 - i]]

\* ExtString::reverse
reverse(t) == Join(VecReverse(graphemes(t)))

----------------------------------------------------------------------------
(* Padding.  A call returns [val |-> the String, fault |-> did it panic].  *)

\* Variant of CharsCount: the number of grapheme clusters
GraphemesCount(t) == Len(graphemes(t))

\* chars().count()
CharsCount(t) == Len(t)

\* Variant of PushRepeat: for _ in 1..repeat, one push short
PushRepeatShort(pad, repeat, ch) == pad \o [i \in 1..(repeat - 1) |-> ch]

\* for _ in 0..repeat { pad.push(ch) }
RECURSIVE PushRepeat(_, _, _)
PushRepeat(pad, repeat, ch) ==
    IF repeat = 0 THEN pad ELSE PushRepeat(Append(pad, ch), repeat - 1, ch)

\* ExtString::pad_left
pad_left(t, n, ch) ==
    LET count == CharsCount(t)
    IN  IF n <= count THEN t
        ELSE PushRepeat(<<>>, n - count, ch) \o t

\* Variant of pad_right: pushes pad_len fill characters, not pad_len - count
pad_right_full(t, n, ch) ==
    LET count == Len(t)
    IN  IF n <= count THEN t
        ELSE t \o [i \in 1..n |-> ch]

\* ExtString::pad_right
pad_right(t, n, ch) ==
    LET count == CharsCount(t)
    IN  IF n <= count THEN t
        ELSE PushRepeat(t, n - count, ch)

\* Variant of PushCycle: nth((index + 1) % repeat_len), the cycle starts at
\* the second scalar of the pattern
PushCycleShifted(acc, index, repeat, pat) ==
    IF Len(pat) = 0 THEN [val |-> acc.val, fault |-> TRUE]
    ELSE [val |-> acc.val \o [i \in 1..(repeat - index) |->
                                  pat[((index + i) % Len(pat)) + 1]],
          fault |-> FALSE]

\* for index in 0..repeat { pad.push(s.chars().nth(index % repeat_len).unwrap()) }
\* The loop panics when repeat_len is 0 (remainder by zero) or when nth
\* yields None (unwrap).
RECURSIVE PushCycle(_, _, _, _)
PushCycle(acc, index, repeat, pat) ==
    LET repeat_len == CharsCount(pat)
    IN  IF index >= repeat THEN acc
        ELSE IF repeat_len = 0 THEN [val |-> acc.val, fault |-> TRUE]
        ELSE IF (index % repeat_len) + 1 \notin DOMAIN pat
             THEN [val |-> acc.val, fault |-> TRUE]
        ELSE PushCycle([val |-> Append(acc.val, pat[(index % repeat_len) + 1]),
                        fault |-> FALSE],
                       index + 1, repeat, pat)

\* Variant of pad_left_str: no s.is_empty() in the guard
pad_left_str_unguarded(t, n, pat) ==
    LET count == Len(t)
    IN  IF n <= count THEN [val |-> t, fault |-> FALSE]
        ELSE IF Len(pat) = 0 THEN [val |-> <<>>, fault |-> TRUE]
        ELSE [val |-> [i \in 1..(n - count) |-> pat[((i - 1) % Len(pat)) + 1]] \o t,
              fault |-> FALSE]

\* ExtString::pad_left_str
pad_left_str(t, n, pat) ==
    LET count == CharsCount(t)
    IN  IF n <= count \/ pat = <<>> THEN [val |-> t, fault |-> FALSE]
        ELSE LET pad == PushCycle([val |-> <<>>, fault |-> FALSE], 0, n - count, pat)
             IN  IF pad.fault THEN pad
                 ELSE [val |-> pad.val \o t, fault |-> FALSE]

\* ExtString::pad_right_str
pad_right_str(t, n, pat) ==
    LET count == CharsCount(t)
    IN  IF n <= count \/ pat = <<>> THEN [val |-> t, fault |-> FALSE]
        ELSE PushCycle([val |-> t, fault |-> FALSE], 0, n - count, pat)

----------------------------------------------------------------------------
(* Predicates and swap_case.                                                *)

\* Iterator::all over the results of the closure on chars(): stops with
\* false at the first scalar failing it, true when the iterator is exhausted
RECURSIVE AllFrom(_, _)
AllFrom(bs, i) ==
    IF i > Len(bs) THEN TRUE
    ELSE IF ~bs[i] THEN FALSE
    ELSE AllFrom(bs, i + 1)

CharsAll(t, f(_)) == AllFrom([i \in 1..Len(t) |-> f(t[i])], 1)

\* Variant of is_numeric: no is_empty test, all() alone
is_numeric_vacuous(t) == \A i \in 1..Len(t) : is_numeric_char(t[i])

\* ExtString::is_numeric
is_numeric(t) == (t /= <<>>) /\ CharsAll(t, is_numeric_char)

\* ExtString::is_alphabetic
is_alphabetic(t) == (t /= <<>>) /\ CharsAll(t, is_alphabetic_char)

\* ExtString::is_alphanumeric
is_alphanumeric(t) == (t /= <<>>) /\ CharsAll(t, is_alphanumeric_char)

\* Variant of SwapChar: assumes a 1:1 mapping, pushes its first scalar only
SwapCharFirst(ch) ==
    IF is_lowercase_char(ch) THEN <<to_uppercase(ch)[1]>>
    ELSE IF is_uppercase_char(ch) THEN <<to_lowercase(ch)[1]>>
    ELSE <<ch>>

\* Variant of SwapChar: without the lowercase branch
SwapCharToLower(ch) ==
    IF is_uppercase_char(ch) THEN to_lowercase(ch)
    ELSE <<ch>>

\* Body of the loop of swap_case: what is pushed for one scalar
SwapChar(ch) ==
    IF is_lowercase_char(ch) THEN to_uppercase(ch)
    ELSE IF is_uppercase_char(ch) THEN to_lowercase(ch)
    ELSE <<ch>>

\* ExtString::swap_case
RECURSIVE SwapLoop(_, _)
SwapLoop(acc, t) ==
    IF t = <<>> THEN acc ELSE SwapLoop(acc \o SwapChar(Head(t)), Tail(t))

swap_case(t) == SwapLoop(<<>>, t)

----------------------------------------------------------------------------
(* The state machine: a String is constructed, then methods are called on  *)
(* it.  The receiver is borrowed immutably, so no call changes it.  The    *)
(* other variables describe the latest call: the method, its arguments     *)
(* (pad_len, c, s; at their defaults when the method takes none), the      *)
(* String (out) or bool (ret) it returned and whether it panicked (fault). *)

Init ==
    /\ self \in Texts
    /\ op = "new"
    /\ pad_len = 0
    /\ c = " "
    /\ s = <<>>
    /\ out = <<>>
    /\ ret = FALSE
    /\ fault = FALSE

Reverse ==
    /\ op' = "reverse"
    /\ out' = reverse(self)
    /\ pad_len' = 0 /\ c' = " " /\ s' = <<>> /\ ret' = FALSE /\ fault' = FALSE
    /\ UNCHANGED self

PadLeft ==
    \E n \in 0..MaxPad, ch \in FillScalars :
        /\ op' = "pad_left"
        /\ pad_len' = n
        /\ c' = ch
        /\ out' = pad_left(self, n, ch)
        /\ s' = <<>> /\ ret' = FALSE /\ fault' = FALSE
        /\ UNCHANGED self

PadRight ==
    \E n \in 0..MaxPad, ch \in FillScalars :
        /\ op' = "pad_right"
        /\ pad_len' = n
        /\ c' = ch
        /\ out' = pad_right(self, n, ch)
        /\ s' = <<>> /\ ret' = FALSE /\ fault' = FALSE
        /\ UNCHANGED self

PadLeftStr ==
    \E n \in 0..MaxPad, pat \in Patterns :
        LET r == pad_left_str(self, n, pat)
        IN  /\ op' = "pad_left_str"
            /\ pad_len' = n
            /\ s' = pat
            /\ out' = r.val
            /\ fault' = r.fault
            /\ c' = " " /\ ret' = FALSE
            /\ UNCHANGED self

PadRightStr ==
    \E n \in 0..MaxPad, pat \in Patterns :
        LET r == pad_right_str(self, n, pat)
        IN  /\ op' = "pad_right_str"
            /\ pad_len' = n
            /\ s' = pat
            /\ out' = r.val
            /\ fault' = r.fault
            /\ c' = " " /\ ret' = FALSE
            /\ UNCHANGED self

IsNumeric ==
    /\ op' = "is_numeric"
    /\ ret' = is_numeric(self)
    /\ pad_len' = 0 /\ c' = " " /\ s' = <<>> /\ out' = <<>> /\ fault' = FALSE
    /\ UNCHANGED self

IsAlphabetic ==
    /\ op' = "is_alphabetic"
    /\ ret' = is_alphabetic(self)
    /\ pad_len' = 0 /\ c' = " " /\ s' = <<>> /\ out' = <<>> /\ fault' = FALSE
    /\ UNCHANGED self

IsAlphanumeric ==
    /\ op' = "is_alphanumeric"
    /\ ret' = is_alphanumeric(self)
    /\ pad_len' = 0 /\ c' = " " /\ s' = <<>> /\ out' = <<>> /\ fault' = FALSE
    /\ UNCHANGED self

SwapCase ==
    /\ op' = "swap_case"
    /\ out' = swap_case(self)
    /\ pad_len' = 0 /\ c' = " " /\ s' = <<>> /\ ret' = FALSE /\ fault' = FALSE
    /\ UNCHANGED self

Next ==
    \/ Reverse
    \/ PadLeft
    \/ PadRight
    \/ PadLeftStr
    \/ PadRightStr
    \/ IsNumeric
    \/ IsAlphabetic
    \/ IsAlphanumeric
    \/ SwapCase

Spec == Init /\ [][Next]_vars

----------------------------------------------------------------------------
(* Properties.                                                              *)

IsPadChar == op \in {"pad_left", "pad_right"}
IsPadStr == op \in {"pad_left_str", "pad_right_str"}
Max(a, b) == IF a >= b THEN a ELSE b

\* Number of scalars in the clusters j+1 .. Len(g) of the cluster list g
RECURSIVE ScalarsAfter(_, _)
ScalarsAfter(g, j) ==
    IF j >= Len(g) THEN 0 ELSE Len(g[j + 1]) + ScalarsAfter(g, j + 1)

\* C1 as stated: reverse is an involution, reverse(reverse(T)) = T for
\* every text T.
C1_ReverseInvolution ==
    op = "reverse" => reverse(out) = self

\* Every scalar of t is a cluster of its own wherever it stands.
NoJoiningScalar(t) == \A i \in 1..Len(t) : GCB(t[i]) = "Other"

\* C1 amended: reverse(reverse(T)) = T whenever reverse(T) segments into the
\* clusters of T in reverse order, which is the case for every T made only
\* of scalars that never join a neighbour.
C1_ReverseInvolutionWhenStable ==
    op = "reverse" =>
        /\ graphemes(out) = VecReverse(graphemes(self)) => reverse(out) = self
        /\ NoJoiningScalar(self) => reverse(out) = self

C1_Witness ==
    /\ op = "reverse"
    /\ self = <<"A", "U+0301", "1">>
    /\ out = <<"1", "A", "U+0301">>
    /\ graphemes(out) = VecReverse(graphemes(self))

\* C2: reverse(T) is the clusters of T in reverse order, each cluster with
\* its scalars in their original order: cluster j of T stands in the result
\* after exactly the scalars of the clusters that followed it in T; when
\* every cluster is a single scalar, the result is the scalar reversal.
C2_ReverseClusterOrder ==
    op = "reverse" =>
        LET g == graphemes(self)
            n == Len(self)
        IN  /\ Len(out) = n
            /\ \A j \in 1..Len(g) : \A i \in 1..Len(g[j]) :
                   out[ScalarsAfter(g, j) + i] = g[j][i]
            /\ (\A j \in 1..Len(g) : Len(g[j]) = 1) =>
                   \A i \in 1..n : out[i] = self[n + 1 - i]
            /\ \A i \in 1..(n - 1) :
                   (GCB(self[i]) = "Other" /\ GCB(self[i + 1]) = "Extend") =>
                       \E k \in 1..(n - 1) :
                           out[k] = self[i] /\ out[k + 1] = self[i + 1]

C2_Witness ==
    /\ op = "reverse"
    /\ self = <<"1", "A", "U+0301">>
    /\ out = <<"A", "U+0301", "1">>

\* C3: for pad_len > n, pad_left returns pad_len - n copies of c followed
\* by T and pad_right returns T followed by pad_len - n copies of c.
C3_PadCharResult ==
    (IsPadChar /\ pad_len > Len(self)) =>
        LET n == Len(self)
            k == pad_len - n
        IN  /\ Len(out) = pad_len
            /\ op = "pad_left" =>
                   /\ \A i \in 1..k : out[i] = c
                   /\ \A i \in 1..n : out[k + i] = self[i]
            /\ op = "pad_right" =>
                   /\ \A i \in 1..n : out[i] = self[i]
                   /\ \A i \in 1..k : out[n + i] = c

C3_Witness ==
    /\ op = "pad_left"
    /\ Len(self) = 2
    /\ pad_len = 4
    /\ c = "q"
    /\ out = <<"q", "q">> \o self

\* C4: for pad_len <= n each of the four padding methods returns T, and
\* every padding call applied to its own result returns that result.
C4_NoOpPadding ==
    /\ ((IsPadChar \/ IsPadStr) /\ pad_len <= Len(self)) => out = self
    /\ op = "pad_left" => pad_left(out, pad_len, c) = out
    /\ op = "pad_right" => pad_right(out, pad_len, c) = out
    /\ op = "pad_left_str" => pad_left_str(out, pad_len, s).val = out
    /\ op = "pad_right_str" => pad_right_str(out, pad_len, s).val = out

C4_Witness ==
    /\ op = "pad_left_str"
    /\ self = <<"A", "U+0301">>
    /\ pad_len = 2
    /\ s /= <<>>
    /\ out = self

\* C5: with a non-empty fill pattern, the scalar count of the result of
\* each padding method is max(pad_len, n).
C5_LengthLaw ==
    /\ IsPadChar => Len(out) = Max(pad_len, Len(self))
    /\ (IsPadStr /\ s /= <<>>) => Len(out) = Max(pad_len, Len(self))

C5_Witness ==
    /\ op = "pad_right_str"
    /\ Len(s) = 3
    /\ Len(self) = 2
    /\ pad_len = 4
    /\ Len(out) = 4

\* C6: for a non-empty pattern S and pad_len > n the fill run has
\* pad_len - n scalars, its i-th scalar is S[i mod |S|], and it stands
\* before T (pad_left_str) or after T (pad_right_str).
C6_PatternCycling ==
    (IsPadStr /\ s /= <<>> /\ pad_len > Len(self)) =>
        LET n == Len(self)
            repeat == pad_len - n
        IN  /\ Len(out) = n + repeat
            /\ op = "pad_left_str" =>
                   /\ \A i \in 0..(repeat - 1) : out[i + 1] = s[(i % Len(s)) + 1]
                   /\ \A i \in 1..n : out[repeat + i] = self[i]
            /\ op = "pad_right_str" =>
                   /\ \A i \in 1..n : out[i] = self[i]
                   /\ \A i \in 0..(repeat - 1) : out[n + i + 1] = s[(i % Len(s)) + 1]

C6_Witness ==
    /\ op = "pad_left_str"
    /\ s = <<"q", "U+0301">>
    /\ self = <<"1">>
    /\ pad_len = 4
    /\ out = <<"q", "U+0301", "q", "1">>

\* C7: no call panics, and with the empty pattern pad_left_str and
\* pad_right_str return T for every pad_len.
C7_EmptyPatternNoOp ==
    /\ fault = FALSE
    /\ (IsPadStr /\ s = <<>>) => out = self

C7_Witness ==
    /\ op = "pad_left_str"
    /\ s = <<>>
    /\ pad_len > Len(self)
    /\ out = self
    /\ fault = FALSE

\* C8: each predicate is true exactly when T is non-empty and every scalar
\* of T is in its class; a numeric or alphabetic T is alphanumeric.
C8_Predicates ==
    /\ op = "is_numeric" =>
           (ret <=> (Len(self) > 0 /\ \A i \in 1..Len(self) : is_numeric_char(self[i])))
    /\ op = "is_alphabetic" =>
           (ret <=> (Len(self) > 0 /\ \A i \in 1..Len(self) : is_alphabetic_char(self[i])))
    /\ op = "is_alphanumeric" =>
           /\ ret <=> (Len(self) > 0 /\ \A i \in 1..Len(self) :
                           is_numeric_char(self[i]) \/ is_alphabetic_char(self[i]))
           /\ (is_numeric(self) \/ is_alphabetic(self)) => ret

C8_Witness ==
    /\ op = "is_numeric"
    /\ self = <<>>
    /\ ret = FALSE

\* What C9 says one scalar is replaced by.
CaseImage(ch) ==
    IF is_lowercase_char(ch) THEN to_uppercase(ch)
    ELSE IF is_uppercase_char(ch) THEN to_lowercase(ch)
    ELSE <<ch>>

\* Number of scalars of the images of the first i scalars of t
RECURSIVE ImageLen(_, _)
ImageLen(t, i) == IF i = 0 THEN 0 ELSE ImageLen(t, i - 1) + Len(CaseImage(t[i]))

NoCase(t) ==
    \A i \in 1..Len(t) : ~is_lowercase_char(t[i]) /\ ~is_uppercase_char(t[i])

\* C9: swap_case(T) is the images of the scalars of T in order: the image
\* of scalar i stands after the images of scalars 1 .. i-1; a text without
\* cased scalars is returned unchanged.
C9_SwapCaseImages ==
    op = "swap_case" =>
        /\ Len(out) = ImageLen(self, Len(self))
        /\ \A i \in 1..Len(self) : \A k \in 1..Len(CaseImage(self[i])) :
               out[ImageLen(self, i - 1) + k] = CaseImage(self[i])[k]
        /\ NoCase(self) => out = self

C9_Witness ==
    /\ op = "swap_case"
    /\ self = <<"U+00DF", "A", "1">>
    /\ out = <<"S", "S", "a", "1">>

\* Every cased scalar of t maps to exactly one scalar, of the opposite case.
SimpleCaseMappings(t) ==
    \A i \in 1..Len(t) :
        /\ is_lowercase_char(t[i]) =>
               /\ Len(to_uppercase(t[i])) = 1
               /\ is_uppercase_char(to_uppercase(t[i])[1])
        /\ is_uppercase_char(t[i]) =>
               /\ Len(to_lowercase(t[i])) = 1
               /\ is_lowercase_char(to_lowercase(t[i])[1])

\* C10 as stated: swap_case(swap_case(T)) = T for every T whose cased
\* scalars have simple 1:1 case mappings.
C10_SwapCaseRoundTrip ==
    (op = "swap_case" /\ SimpleCaseMappings(self)) => swap_case(out) = self

\* The image of every scalar of t is one scalar whose image is that scalar.
RoundTrippingMappings(t) ==
    \A i \in 1..Len(t) :
        /\ Len(CaseImage(t[i])) = 1
        /\ CaseImage(CaseImage(t[i])[1]) = <<t[i]>>

\* C10 amended: swap_case(swap_case(T)) = T for every T in which the case
\* mapping of every cased scalar is a single scalar that maps back to it.
C10_SwapCaseRoundTripWhenInverse ==
    (op = "swap_case" /\ RoundTrippingMappings(self)) => swap_case(out) = self

C10_Witness ==
    /\ op = "swap_case"
    /\ self = <<"A", "1", "A">>
    /\ out = <<"a", "1", "a">>
    /\ RoundTrippingMappings(self)

TypeOK ==
    /\ self \in Texts
    /\ pad_len \in 0..MaxPad
    /\ fault \in BOOLEAN
    /\ ret \in BOOLEAN

====
